---- MODULE Spec2Model ----
(***************************************************************************)
(* Approval workflow, notification dispatch and pending-approval counting  *)
(* of the report service layer (src/services.py).                          *)
(*                                                                         *)
(* The persistent store is the variables users, reports, notifications;    *)
(* emails is the outbox of the send_email_notification collaborator.  An   *)
(* action is one call of a service method, run to completion, with the     *)
(* failures of its commits and collaborators drawn as inputs.  last is the *)
(* observation of the most recent call: its arguments and what it returned *)
(* or raised.                                                              *)
(***************************************************************************)
EXTENDS Integers, Sequences, FiniteSets, TLC

VARIABLES users, reports, satReports, issued, notifications, emails,
          emailEnabled, now, last, job, task, calls

vars == <<users, reports, satReports, issued, notifications, emails,
          emailEnabled, now, last, job, task, calls>>

(***************************************************************************)
(* Bounds of the model.                                                    *)
(***************************************************************************)
MaxReports == 1
MaxUsers == 2
MaxNotifications == 2
MaxStored == 2
MaxInbox == 2
MaxBatch == 3
MaxKept == 2
MaxOwned == 2
MaxFramed == 1
MaxRecipients == 3
MaxCalls == 2
MaxTime == 2
MaxDays == 1

(***************************************************************************)
(* Python values and JSON text.  A Python value is a tagged tuple; a JSON  *)
(* text is a sequence of tokens: <<"p", c>> punctuation, <<"s", x>> a      *)
(* string literal, <<"n", k>> a number literal, <<"l", "null">> the null   *)
(* literal, <<"x", w>> anything that is no JSON token.                     *)
(***************************************************************************)
PyInt(n) == <<"int", n>>
PyStr(s) == <<"str", s>>
PyList(items) == <<"list", items>>
PyDict(pairs) == <<"dict", pairs>>
PyNone == <<"None", 0>>

P(c) == <<"p", c>>

RECURSIVE json_dumps(_)
RECURSIVE DumpItems(_, _)
RECURSIVE DumpPairs(_, _)
\* json.dumps: the text of a value, members and elements in their order.
json_dumps(v) ==
    CASE v[1] = "int" -> << <<"n", v[2]>> >>
      [] v[1] = "str" -> << <<"s", v[2]>> >>
      [] v[1] = "list" -> <<P("[")>> \o DumpItems(v[2], 1) \o <<P("]")>>
      [] v[1] = "dict" -> <<P("{")>> \o DumpPairs(v[2], 1) \o <<P("}")>>
      [] OTHER -> << <<"l", "null">> >>

DumpItems(items, i) ==
    IF i > Len(items) THEN <<>>
    ELSE (IF i > 1 THEN <<P(",")>> ELSE <<>>)
         \o json_dumps(items[i]) \o DumpItems(items, i + 1)

DumpPairs(pairs, i) ==
    IF i > Len(pairs) THEN <<>>
    ELSE (IF i > 1 THEN <<P(",")>> ELSE <<>>)
         \o << <<"s", pairs[i][1]>>, P(":") >>
         \o json_dumps(pairs[i][2]) \o DumpPairs(pairs, i + 1)

Tok(toks, i) == IF i <= Len(toks) THEN toks[i] ELSE <<"eof", "">>
IsP(t, c) == t[1] = "p" /\ t[2] = c
ParseFail == [ok |-> FALSE, val |-> PyNone, next |-> 0]

RECURSIVE ParseValue(_, _)
RECURSIVE ParseElems(_, _, _)
RECURSIVE ParseMembers(_, _, _)
\* The JSON value that starts at token i, and the place after it.
ParseValue(toks, i) ==
    LET t == Tok(toks, i) IN
    CASE t[1] = "s" -> [ok |-> TRUE, val |-> PyStr(t[2]), next |-> i + 1]
      [] t[1] = "n" -> [ok |-> TRUE, val |-> PyInt(t[2]), next |-> i + 1]
      [] t[1] = "l" -> [ok |-> TRUE, val |-> PyNone, next |-> i + 1]
      [] IsP(t, "[") ->
            IF IsP(Tok(toks, i + 1), "]")
            THEN [ok |-> TRUE, val |-> PyList(<<>>), next |-> i + 2]
            ELSE ParseElems(toks, i + 1, <<>>)
      [] IsP(t, "{") ->
            IF IsP(Tok(toks, i + 1), "}")
            THEN [ok |-> TRUE, val |-> PyDict(<<>>), next |-> i + 2]
            ELSE ParseMembers(toks, i + 1, <<>>)
      [] OTHER -> ParseFail

ParseElems(toks, i, acc) ==
    LET v == ParseValue(toks, i) IN
    IF ~v.ok THEN ParseFail
    ELSE LET t == Tok(toks, v.next) IN
         IF IsP(t, ",") THEN ParseElems(toks, v.next + 1, Append(acc, v.val))
         ELSE IF IsP(t, "]")
              THEN [ok |-> TRUE, val |-> PyList(Append(acc, v.val)), next |-> v.next + 1]
              ELSE ParseFail

ParseMembers(toks, i, acc) ==
    LET k == Tok(toks, i) IN
    IF ~(k[1] = "s" /\ IsP(Tok(toks, i + 1), ":")) THEN ParseFail
    ELSE LET v == ParseValue(toks, i + 2) IN
         IF ~v.ok THEN ParseFail
         ELSE LET t == Tok(toks, v.next)
                  acc2 == Append(acc, <<k[2], v.val>>)
              IN IF IsP(t, ",") THEN ParseMembers(toks, v.next + 1, acc2)
                 ELSE IF IsP(t, "}")
                      THEN [ok |-> TRUE, val |-> PyDict(acc2), next |-> v.next + 1]
                      ELSE ParseFail

\* json.loads: the value of a text, or a raise (ok = FALSE) when the text is
\* empty, is no JSON value, or has text after its value.
json_loads(text) ==
    LET v == ParseValue(text, 1) IN
    IF v.ok /\ v.next = Len(text) + 1
    THEN [ok |-> TRUE, val |-> v.val]
    ELSE [ok |-> FALSE, val |-> PyNone]

RECURSIVE DictGetFrom(_, _, _)
DictGetFrom(pairs, key, i) ==
    IF i < 1 THEN PyNone
    ELSE IF pairs[i][1] = key THEN pairs[i][2]
         ELSE DictGetFrom(pairs, key, i - 1)

\* dict.get(key): the value of the last member with that key, or None.
DictGet(d, key) == DictGetFrom(d[2], key, Len(d[2]))

\* Python's == between two values of the kinds above.
PyEq(a, b) == a[1] = b[1] /\ a[2] = b[2]

(***************************************************************************)
(* A text column of the store: NULL, or a text.                            *)
(***************************************************************************)
NullText == [null |-> TRUE, text |-> <<>>]
Text(toks) == [null |-> FALSE, text |-> toks]

(***************************************************************************)
(* Role strings.                                                           *)
(***************************************************************************)
TMCategoryRoles == {"TM", "Technical Manager", "Tech Manager", "Automation Manager"}
PMCategoryRoles == {"PM", "Project Manager", "Project_Manager"}
RoleStrings == {"Admin", "Engineer"} \cup TMCategoryRoles \cup PMCategoryRoles
ApprovalRecipientRoles == {"TM", "Technical Manager"}
Stage1Roles == {"TM", "Technical Manager"}
Stage2Roles == {"PM", "Project Manager"}

Statuses == {"DRAFT", "PENDING", "APPROVED"}

(***************************************************************************)
(* The store.                                                              *)
(*   users          the User table, in primary-key order                   *)
(*   reports        the Report table, by id                                *)
(*   satReports     the ids of the reports that have a SATReport record    *)
(*   issued         the number of report ids uuid4 has handed out          *)
(*   notifications  the Notification table, in primary-key order          *)
(*   emails         the recipients send_email_notification has sent to     *)
(*   emailEnabled   the ENABLE_EMAIL_NOTIFICATIONS setting                 *)
(*   now            the clock read by datetime.utcnow()                    *)
(*   job            the task a worker holds, and where it is in its body   *)
(*   task           the result backend's record of that task's id          *)
(*   calls          the requests that run update_report_status at the same  *)
(*                  time, each with its place in the function              *)
(***************************************************************************)
EmailOf == <<"u1@x", "u2@x", "u3@x", "u4@x">>

\* data.get(key, default) of a dict of submitted fields.
DataGet(data, key, default) == IF key \in DOMAIN data THEN data[key] ELSE default

\* Python's None where a string is expected.
None == "None"

User(email, role, status) == [email |-> email, role |-> role, status |-> status]

\* Report(...) as create_report builds it: status DRAFT, and the columns it
\* does not pass (approvals_json, approval_notification_sent) at their
\* defaults, NULL and false.
NewReport(data, user_email, created) ==
    [type |-> DataGet(data, "type", "SAT"),
     status |-> "DRAFT",
     document_title |-> DataGet(data, "document_title", None),
     user_email |-> user_email,
     updated_at |-> created,
     approvals_json |-> NullText,
     approval_notification_sent |-> FALSE]

\* The value of a timestamp column that is NULL.
Never == -1

\* A Notification object as create_notification constructs it: no primary key
\* (0) and no created timestamp before it is flushed, never read.
Notification(user_email, title, message, type) ==
    [id |-> 0, user_email |-> user_email, title |-> title, message |-> message,
     type |-> type, read |-> FALSE, created_at |-> Never, read_at |-> Never]

\* The greatest primary key of a table of notifications (0 when it is empty).
LastId(table) ==
    IF table = <<>> THEN 0
    ELSE CHOOSE k \in {table[i].id : i \in 1..Len(table)} :
             \A i \in 1..Len(table) : table[i].id <= k

\* The Notification table after the insertion of new objects at time at: each
\* gets the next primary key and its created timestamp.
Inserted(table, news, at) ==
    table \o [i \in 1..Len(news) |->
                 [news[i] EXCEPT !.id = LastId(table) + i, !.created_at = at]]

\* What the result backend holds beside a task's state: the meta of
\* update_state, the dict a task returned, or the text of an error.
Info(kind, status) ==
    [kind |-> kind, status |-> status, progress |-> 0, sent |-> 0, failed |-> 0,
     total |-> 0, word_path |-> "", error |-> ""]

NoInfo == Info("none", "")

\* The result backend's record of a task id nothing was stored for.
NoTask == [state |-> "PENDING", info |-> NoInfo]

\* A task as a worker runs it: which task, where in its body, its arguments
\* and local variables, the objects pending in its session, and which step of
\* each iteration raised, and what raised outside the iterations.
Job(kind, user_emails, report_id) ==
    [kind |-> kind, pc |-> "queued", user_emails |-> user_emails,
     report_id |-> report_id, i |-> 0, session |-> <<>>, sent_count |-> 0,
     failed_count |-> 0, raised |-> <<>>, outer_raised |-> ""]

NoJob == [Job("none", <<>>, 0) EXCEPT !.pc = "none"]

\* What a call did: its name and arguments, what it returned or raised, and
\* for a call that reached the dispatcher, what the dispatcher did.
Obs(op, arg, status, old_status, outcome, value) ==
    [op |-> op, arg |-> arg, status |-> status, old_status |-> old_status,
     outcome |-> outcome, value |-> value, email |-> "", reply |-> NoInfo,
     title |-> None, returned |-> {},
     dispatched |-> FALSE, dispatch_ok |-> FALSE, recipients |-> <<>>,
     failed_at |-> 0, mail_failed_at |-> 0, before |-> 0, mails_before |-> 0]

NoCall == Obs("none", 0, "", "", "", 0)

\* The observation of a step that is no call of the service layer: a step of
\* a task body, of the worker, or of the clock.
Step(name) == Obs(name, 0, "", "", "", 0)

(***************************************************************************)
(* ReportService.update_report_status: the approval state it stores on     *)
(* DRAFT -> PENDING.                                                       *)
(***************************************************************************)
InitialApprovals ==
    PyDict(<< <<"stage", PyInt(1)>>,
              <<"approvers",
                PyList(<< PyDict(<< <<"stage", PyInt(1)>>,
                                    <<"title", PyStr("Technical Manager")>>,
                                    <<"status", PyStr("pending")>> >>),
                          PyDict(<< <<"stage", PyInt(2)>>,
                                    <<"title", PyStr("Project Manager")>>,
                                    <<"status", PyStr("pending")>> >>) >>)>> >>)

\* A slip in the condition below: the old status compared with the wrong constant.
InitializesApprovalsFromApproved(old_status, status) ==
    status = "PENDING" /\ old_status = "APPROVED"

\* Whether the call initializes the approval workflow.
InitializesApprovals(old_status, status) ==
    status = "PENDING" /\ old_status = "DRAFT"

\* The report as the call has changed it in the session before its first commit.
StatusChange(report, status, at) ==
    [report EXCEPT
       !.status = status,
       !.updated_at = at,
       !.approvals_json =
           IF InitializesApprovals(report.status, status)
           THEN Text(json_dumps(InitialApprovals))
           ELSE @]

(***************************************************************************)
(* NotificationService.create_approval_notification.                       *)
(***************************************************************************)
\* The query of the recipients: the Active users whose role is in the list.
ApprovalRecipients(us) ==
    SelectSeq(us, LAMBDA u : u.role \in ApprovalRecipientRoles /\ u.status = "Active")

ApprovalNotification(tm, report) ==
    Notification(tm.email, "New Report for Approval", report.document_title, "approval")

\* The loop over the recipients, each create_notification committing its own
\* record: create_notification raises at recipient failAt (0: at none), and the
\* raise leaves the loop.
NotificationsCreated(tms, report, failAt) ==
    LET n == IF failAt \in 1..Len(tms) THEN failAt - 1 ELSE Len(tms)
    IN [i \in 1..n |-> ApprovalNotification(tms[i], report)]

\* The loop over the recipients that sends the emails: it is reached when no
\* create_notification raised and the setting is on; send_email_notification
\* raises at recipient mailFailAt (0: at none).
EmailsSent(tms, enabled, failAt, mailFailAt) ==
    IF failAt \in 1..Len(tms) \/ ~enabled THEN <<>>
    ELSE LET n == IF mailFailAt \in 1..Len(tms) THEN mailFailAt - 1 ELSE Len(tms)
         IN [i \in 1..n |-> tms[i].email]

\* The return value: True unless something raised.
DispatchReturn(tms, enabled, failAt, mailFailAt) ==
    ~(failAt \in 1..Len(tms)) /\ ~(enabled /\ mailFailAt \in 1..Len(tms))

\* The dispatcher's part of an observation.
Dispatched(obs, tms, failAt, mailFailAt) ==
    [obs EXCEPT
       !.dispatched = TRUE,
       !.dispatch_ok = DispatchReturn(tms, emailEnabled, failAt, mailFailAt),
       !.recipients = [i \in 1..Len(tms) |-> tms[i].email],
       !.failed_at = IF failAt \in 1..Len(tms) THEN failAt ELSE 0,
       !.mail_failed_at =
           IF ~(failAt \in 1..Len(tms)) /\ emailEnabled /\ mailFailAt \in 1..Len(tms)
           THEN mailFailAt ELSE 0,
       !.before = Len(notifications),
       !.mails_before = Len(emails)]

(***************************************************************************)
(* The session of one call on one report: row is the report as committed,  *)
(* obj the report object as the session holds it.                          *)
(***************************************************************************)
Session(report) == [row |-> report, obj |-> report]

\* db.session.commit() that succeeds.
SessionCommit(s) == [row |-> s.obj, obj |-> s.obj]

\* db.session.rollback().
SessionRollback(s) == [row |-> s.row, obj |-> s.row]

\* The first commit left out: the status change stays pending in the session.
FirstCommitMissing(s) == s

\* update_report_status, line 178: the commit of the status change.
FirstCommit(s) == SessionCommit(s)

\* The session after create_approval_notification: each create_notification
\* that succeeds commits the session, the one that raises rolls it back.
DispatchSession(s, tms, failAt) ==
    LET failed == failAt \in 1..Len(tms)
        created == IF failed THEN failAt - 1 ELSE Len(tms)
        s1 == IF created >= 1 THEN SessionCommit(s) ELSE s
    IN IF failed THEN SessionRollback(s1) ELSE s1

\* update_report_status, lines 183-184: the flag and the second commit.
MarkSent(s, commitFails) ==
    LET s1 == [s EXCEPT !.obj.approval_notification_sent = TRUE]
    IN IF commitFails THEN SessionRollback(s1) ELSE SessionCommit(s1)

(***************************************************************************)
(* Actions.                                                                *)
(***************************************************************************)
\* ReportService.create_report(data, user_email).
create_report(data, user_email, commitFails) ==
    /\ issued' = issued + 1
    /\ LET report_id == issued + 1
           report == NewReport(data, user_email, now)
       IN IF commitFails
          THEN /\ UNCHANGED <<reports, satReports>>
               /\ last' = [Obs("create_report", report_id, "", "", "PersistenceError", 0)
                              EXCEPT !.title = report.document_title]
          ELSE /\ reports' = [i \in DOMAIN reports \cup {report_id} |->
                                 IF i = report_id THEN report ELSE reports[i]]
               /\ satReports' = IF report.type = "SAT"
                                THEN satReports \cup {report_id} ELSE satReports
               /\ last' = [Obs("create_report", report_id, "DRAFT", "", "ok", 0)
                              EXCEPT !.title = report.document_title]
    /\ UNCHANGED <<users, notifications, emails, emailEnabled, now, job, task, calls>>

\* A lookup that misses taken for a request to create the report.
NotFoundCreating(rs, report_id, status) ==
    [r \in DOMAIN rs \cup {report_id} |->
        IF r = report_id
        THEN [NewReport(<<>>, None, 0) EXCEPT !.status = status]
        ELSE rs[r]]

\* update_report_status, lines 158-160 and 187-190: Report.query.get gave
\* None, ValueError is raised and the session, which holds no change, is
\* rolled back: the Report table afterwards.
NotFound(rs, report_id, status) == rs

\* ReportService.update_report_status(report_id, status).
update_report_status(report_id, status, commit1Fails, failAt, mailFailAt, commit2Fails) ==
    /\ IF report_id \notin DOMAIN reports
       THEN /\ last' = Obs("update_report_status", report_id, status, "", "NotFound", 0)
            /\ reports' = NotFound(reports, report_id, status)
            /\ UNCHANGED <<notifications, emails>>
       ELSE LET report == reports[report_id]
                old_status == report.status
                obs == Obs("update_report_status", report_id, status, old_status, "ok", 0)
                s0 == [Session(report) EXCEPT !.obj = StatusChange(report, status, now)]
            IN IF commit1Fails
               THEN /\ last' = [obs EXCEPT !.outcome = "PersistenceError"]
                    /\ reports' = [reports EXCEPT ![report_id] = SessionRollback(s0).row]
                    /\ UNCHANGED <<notifications, emails>>
               ELSE LET s1 == FirstCommit(s0) IN
                    IF status = "PENDING" /\ ~s1.obj.approval_notification_sent
                    THEN LET tms == ApprovalRecipients(users)
                             s2 == DispatchSession(s1, tms, failAt)
                             s3 == MarkSent(s2, commit2Fails)
                         IN /\ Len(notifications) + Len(tms) <= MaxNotifications
                            /\ notifications' =
                                   Inserted(notifications,
                                            NotificationsCreated(tms, s1.obj, failAt), now)
                            /\ emails' = emails
                                   \o EmailsSent(tms, emailEnabled, failAt, mailFailAt)
                            /\ reports' = [reports EXCEPT ![report_id] = s3.row]
                            /\ last' = [Dispatched(obs, tms, failAt, mailFailAt) EXCEPT
                                          !.outcome = IF commit2Fails
                                                      THEN "PersistenceError" ELSE "ok"]
                    ELSE /\ reports' = [reports EXCEPT ![report_id] = s1.row]
                         /\ last' = obs
                         /\ UNCHANGED <<notifications, emails>>
    /\ UNCHANGED <<users, satReports, issued, emailEnabled, now, job, task, calls>>

(***************************************************************************)
(* update_report_status run by several requests at the same time: each     *)
(* request has its own session; the steps are the points at which it       *)
(* reads or writes the database.                                           *)
(***************************************************************************)
\* A request that is about to call update_report_status(report_id, status).
Call(report_id, status) ==
    [pc |-> "load", report_id |-> report_id, status |-> status,
     old_status |-> "", obj |-> NewReport(<<>>, None, 0)]

\* The observation of a step of request c.
CallStep(name, c) == [Step(name) EXCEPT !.arg = c]

\* Line 157: Report.query.get(report_id); a report that is missing ends the
\* call with the not-found error.
call_load(c) ==
    /\ calls[c].pc = "load"
    /\ calls' = [calls EXCEPT ![c] =
                    IF calls[c].report_id \in DOMAIN reports
                    THEN [calls[c] EXCEPT
                            !.pc = "commit",
                            !.obj = reports[calls[c].report_id],
                            !.old_status = reports[calls[c].report_id].status]
                    ELSE [calls[c] EXCEPT !.pc = "done"]]
    /\ last' = CallStep("call_load", c)
    /\ UNCHANGED <<users, reports, satReports, issued, notifications, emails,
                   emailEnabled, now, job, task>>

\* Lines 162-178: the status, the timestamp and, on DRAFT -> PENDING, the
\* approval state are assigned to the loaded object and committed: the
\* columns assigned are written to the row.
call_commit(c) ==
    /\ calls[c].pc = "commit"
    /\ LET changed == StatusChange(calls[c].obj, calls[c].status, now)
       IN /\ reports' = [reports EXCEPT ![calls[c].report_id] =
                            [@ EXCEPT !.status = changed.status,
                                      !.updated_at = changed.updated_at,
                                      !.approvals_json =
                                          IF InitializesApprovals(calls[c].old_status,
                                                                  calls[c].status)
                                          THEN changed.approvals_json ELSE @]]
          /\ calls' = [calls EXCEPT ![c].pc = "check", ![c].obj = changed]
    /\ last' = CallStep("call_commit", c)
    /\ UNCHANGED <<users, satReports, issued, notifications, emails, emailEnabled,
                   now, job, task>>

\* Line 181: the test of the flag; the commit has expired the object, so the
\* flag is read from the row as it is now.
call_check(c) ==
    /\ calls[c].pc = "check"
    /\ calls' = [calls EXCEPT ![c].pc =
                    IF calls[c].status = "PENDING"
                       /\ ~reports[calls[c].report_id].approval_notification_sent
                    THEN "dispatch" ELSE "done"]
    /\ last' = CallStep("call_check", c)
    /\ UNCHANGED <<users, reports, satReports, issued, notifications, emails,
                   emailEnabled, now, job, task>>

\* Line 182: NotificationService.create_approval_notification(report).
call_dispatch(c) ==
    /\ calls[c].pc = "dispatch"
    /\ LET tms == ApprovalRecipients(users)
       IN /\ notifications' = Inserted(notifications,
                                       NotificationsCreated(tms, calls[c].obj, 0), now)
          /\ emails' = emails \o EmailsSent(tms, emailEnabled, 0, 0)
    /\ calls' = [calls EXCEPT ![c].pc = "mark"]
    /\ last' = CallStep("call_dispatch", c)
    /\ UNCHANGED <<users, reports, satReports, issued, emailEnabled, now, job, task>>

\* Lines 183-184: the flag is set and committed.
call_mark(c) ==
    /\ calls[c].pc = "mark"
    /\ reports' = [reports EXCEPT
                      ![calls[c].report_id].approval_notification_sent = TRUE]
    /\ calls' = [calls EXCEPT ![c].pc = "done"]
    /\ last' = CallStep("call_mark", c)
    /\ UNCHANGED <<users, satReports, issued, notifications, emails, emailEnabled,
                   now, job, task>>

\* NotificationService.create_approval_notification(report), called on its own.
create_approval_notification(report, failAt, mailFailAt) ==
    LET tms == ApprovalRecipients(users)
        obs == Dispatched(Obs("create_approval_notification", 0, "", "", "ok", 0),
                          tms, failAt, mailFailAt)
    IN /\ Len(notifications) + Len(tms) <= MaxNotifications
       /\ notifications' = Inserted(notifications,
                                    NotificationsCreated(tms, report, failAt), now)
       /\ emails' = emails \o EmailsSent(tms, emailEnabled, failAt, mailFailAt)
       /\ last' = obs
       /\ UNCHANGED <<users, reports, satReports, issued, emailEnabled, now, job, task, calls>>

\* The except branch failing open: a state that cannot be read counts as at
\* the stage.
_is_at_stage_fail_open(report, stage) ==
    IF report.approvals_json.null \/ report.approvals_json.text = <<>>
    THEN FALSE
    ELSE LET approvals == json_loads(report.approvals_json.text) IN
         IF ~approvals.ok THEN TRUE
         ELSE IF approvals.val[1] # "dict" THEN TRUE
              ELSE PyEq(DictGet(approvals.val, "stage"), PyInt(stage))

\* ReportService._is_at_stage(report, stage).
_is_at_stage(report, stage) ==
    IF report.approvals_json.null \/ report.approvals_json.text = <<>>
    THEN FALSE
    ELSE LET approvals == json_loads(report.approvals_json.text) IN
         IF ~approvals.ok THEN FALSE
         ELSE IF approvals.val[1] # "dict" THEN FALSE
              ELSE PyEq(DictGet(approvals.val, "stage"), PyInt(stage))

\* Report.query.filter_by(status='PENDING').all(), as the set of ids.
PendingReports(rs) == {i \in DOMAIN rs : rs[i].status = "PENDING"}

\* A count that hands each pending approval out once: a call that follows
\* another call finds nothing left.
PendingApprovalCountConsuming(rs, user_role) ==
    IF last.op = "get_pending_approvals" THEN 0
    ELSE IF user_role \in Stage1Roles
         THEN Cardinality({i \in PendingReports(rs) : _is_at_stage(rs[i], 1)})
         ELSE IF user_role \in Stage2Roles
              THEN Cardinality({i \in PendingReports(rs) : _is_at_stage(rs[i], 2)})
              ELSE 0

\* The count get_pending_approvals computes for a role.
PendingApprovalCount(rs, user_role) ==
    IF user_role \in Stage1Roles
    THEN Cardinality({i \in PendingReports(rs) : _is_at_stage(rs[i], 1)})
    ELSE IF user_role \in Stage2Roles
         THEN Cardinality({i \in PendingReports(rs) : _is_at_stage(rs[i], 2)})
         ELSE 0

\* ReportService.get_pending_approvals(user_role): the count, or 0 when the
\* query raises.
get_pending_approvals(user_role, queryFails) ==
    /\ last' = Obs("get_pending_approvals", user_role, "", "",
                   IF queryFails THEN "swallowed" ELSE "ok",
                   IF queryFails /\ user_role \in Stage1Roles \cup Stage2Roles
                   THEN 0 ELSE PendingApprovalCount(reports, user_role))
    /\ UNCHANGED <<users, reports, satReports, issued, notifications, emails,
                   emailEnabled, now, job, task, calls>>

\* The roles that see every report.
SeesAllReports(role) ==
    role = "Admin" \/ role \in {"TM", "Technical Manager", "PM", "Project Manager"}

\* ReportService.get_user_reports(user_email, role): the reports returned, as
\* the set of their ids; a query that raises is raised to the caller.
get_user_reports(user_email, role, queryFails) ==
    /\ last' = [Obs("get_user_reports", role, "", "",
                    IF queryFails THEN "PersistenceError" ELSE "ok", 0)
                   EXCEPT !.email = user_email,
                          !.returned =
                              IF queryFails THEN {}
                              ELSE IF SeesAllReports(role) THEN DOMAIN reports
                              ELSE {r \in DOMAIN reports :
                                       reports[r].user_email = user_email}]
    /\ UNCHANGED <<users, reports, satReports, issued, notifications, emails,
                   emailEnabled, now, job, task, calls>>

\* NotificationService.get_unread_count(user_email): the count of the unread
\* notifications of the user, or 0 when the query raises.
get_unread_count(user_email, queryFails) ==
    /\ last' = [Obs("get_unread_count", 0, "", "",
                    IF queryFails THEN "swallowed" ELSE "ok",
                    IF queryFails THEN 0
                    ELSE Cardinality({i \in 1..Len(notifications) :
                                         /\ notifications[i].user_email = user_email
                                         /\ ~notifications[i].read}))
                   EXCEPT !.email = user_email]
    /\ UNCHANGED <<users, reports, satReports, issued, notifications, emails,
                   emailEnabled, now, job, task, calls>>

\* The lookup by the primary key alone, whoever the recipient is.
FindNotificationById(table, notification_id, user_email) ==
    LET hits == {i \in 1..Len(table) : table[i].id = notification_id}
    IN IF hits = {} THEN 0 ELSE CHOOSE i \in hits : \A j \in hits : i <= j

\* Notification.query.filter_by(id=..., user_email=...).first(): the position
\* of the row in the table, 0 for None.
FindNotification(table, notification_id, user_email) ==
    LET hits == {i \in 1..Len(table) : /\ table[i].id = notification_id
                                       /\ table[i].user_email = user_email}
    IN IF hits = {} THEN 0 ELSE CHOOSE i \in hits : \A j \in hits : i <= j

\* NotificationService.mark_as_read(notification_id, user_email): the outcome
\* is the value returned; a commit that raises is rolled back and gives False.
mark_as_read(notification_id, user_email, commitFails) ==
    LET i == FindNotification(notifications, notification_id, user_email)
        obs == [Obs("mark_as_read", notification_id, "", "", "False", 0)
                   EXCEPT !.email = user_email]
    IN /\ IF i # 0 /\ ~commitFails
          THEN /\ notifications' = [notifications EXCEPT ![i].read = TRUE,
                                                         ![i].read_at = now]
               /\ last' = [obs EXCEPT !.outcome = "True"]
          ELSE /\ UNCHANGED notifications
               /\ last' = obs
       /\ UNCHANGED <<users, reports, satReports, issued, emails, emailEnabled, now,
                      job, task, calls>>

\* The cutoff test with the boundary on the wrong side.
OlderThanOrAt(at, cutoff) == at <= cutoff

\* A timestamp column compared with the cutoff date: column < cutoff_date.
OlderThan(at, cutoff) == at < cutoff

\* The filter on the notifications with the read flag left out.
OldNotificationsOfAnyKind(table, cutoff) ==
    {i \in 1..Len(table) : OlderThan(table[i].created_at, cutoff)}

\* Report.query.filter(status == 'DRAFT', updated_at < cutoff_date).all(), as
\* the set of ids.
OldDrafts(rs, cutoff) ==
    {r \in DOMAIN rs : rs[r].status = "DRAFT" /\ OlderThan(rs[r].updated_at, cutoff)}

\* Notification.query.filter(read, created_at < cutoff_date).all(), as the set
\* of positions in the table.
OldNotifications(table, cutoff) ==
    {i \in 1..Len(table) : table[i].read /\ OlderThan(table[i].created_at, cutoff)}

\* The rows of a table of notifications at the positions outside gone.
Remaining(table, gone) ==
    LET F[i \in 0..Len(table)] ==
            IF i = 0 THEN <<>>
            ELSE IF i \in gone THEN F[i - 1] ELSE Append(F[i - 1], table[i])
    IN F[Len(table)]

\* SystemService.cleanup_old_data(days), which the periodic task calls: the
\* clock counts days. The deletes are committed together; a commit that raises
\* is rolled back and 0 is returned. The value is the number of reports.
cleanup_old_data(days, commitFails) ==
    LET cutoff_date == now - days
        old_drafts == OldDrafts(reports, cutoff_date)
        old_notifications == OldNotifications(notifications, cutoff_date)
    IN /\ IF commitFails
          THEN /\ UNCHANGED <<reports, notifications>>
               /\ last' = Obs("cleanup_old_data", days, "", "", "swallowed", 0)
          ELSE /\ reports' = [r \in DOMAIN reports \ old_drafts |-> reports[r]]
               /\ notifications' = Remaining(notifications, old_notifications)
               /\ last' = Obs("cleanup_old_data", days, "", "", "ok",
                              Cardinality(old_drafts))
       /\ UNCHANGED <<users, satReports, issued, emails, emailEnabled, now, job, task, calls>>

\* A day passes.
tick ==
    /\ now < MaxTime
    /\ now' = now + 1
    /\ last' = Step("tick")
    /\ UNCHANGED <<users, reports, satReports, issued, notifications, emails,
                   emailEnabled, job, task, calls>>

(***************************************************************************)
(* The task layer. A worker that picks a task up records STARTED           *)
(* (task_track_started); the body reports PROGRESS through update_state;   *)
(* what the body returns is stored with SUCCESS; a body that is killed at  *)
(* the hard time limit is stored with FAILURE.                             *)
(***************************************************************************)
BulkTitle == "Notice"
BulkMessage == "Body"

\* What can happen in one iteration of the loop of bulk_notification_async:
\* nothing raises, the constructor raises, db.session.add raises, or the
\* update_state after the sent counter raises.
IterationSteps == {"ok", "construct", "add", "progress"}

\* The worker takes the task from the queue.
pick_up ==
    /\ job.pc = "queued"
    /\ job' = [job EXCEPT !.pc = "start"]
    /\ task' = [state |-> "STARTED", info |-> NoInfo]
    /\ last' = Step("pick_up")
    /\ UNCHANGED <<users, reports, satReports, issued, notifications, emails,
                   emailEnabled, now, calls>>

\* The hard time limit: the worker process running the body is killed, and
\* what its session held is lost.
time_limit ==
    /\ job.pc \notin {"none", "queued", "done"}
    /\ job' = [job EXCEPT !.pc = "done", !.session = <<>>]
    /\ task' = [state |-> "FAILURE", info |-> Info("error", "TimeLimitExceeded")]
    /\ last' = Step("time_limit")
    /\ UNCHANGED <<users, reports, satReports, issued, notifications, emails,
                   emailEnabled, now, calls>>

\* The dict the outer except of a task body returns.
FailedResult == [Info("result", "failed") EXCEPT !.error = "str(e)"]

\* bulk_notification_async, lines 177-178: the first update_state; if it
\* raises the outer except returns the failed result.
bulk_start(raises) ==
    /\ job.kind = "bulk" /\ job.pc = "start"
    /\ IF raises
       THEN /\ job' = [job EXCEPT !.pc = "done", !.outer_raised = "start"]
            /\ task' = [state |-> "SUCCESS", info |-> FailedResult]
       ELSE /\ job' = [job EXCEPT !.pc = "loop"]
            /\ task' = [state |-> "PROGRESS",
                        info |-> [Info("meta", "Sending notifications...") EXCEPT
                                     !.total = Len(job.user_emails)]]
    /\ last' = Step("bulk_start")
    /\ UNCHANGED <<users, reports, satReports, issued, notifications, emails,
                   emailEnabled, now, calls>>

\* An iteration whose failure is tallied but whose object stays in the session.
bulk_iteration_keeping(j, step) ==
    [j EXCEPT
       !.i = @ + 1,
       !.session = Append(@, Notification(j.user_emails[j.i + 1], BulkTitle,
                                          BulkMessage, "info")),
       !.sent_count = IF step \in {"construct", "add"} THEN @ ELSE @ + 1,
       !.failed_count = IF step = "ok" THEN @ ELSE @ + 1,
       !.raised = Append(@, step)]

\* bulk_notification_async, lines 188-205: one iteration of the loop, on the
\* task's local variables. The object is in the session once add returned.
bulk_iteration(j, step) ==
    [j EXCEPT
       !.i = @ + 1,
       !.session = IF step \in {"construct", "add"} THEN @
                   ELSE Append(@, Notification(j.user_emails[j.i + 1], BulkTitle,
                                               BulkMessage, "info")),
       !.sent_count = IF step \in {"construct", "add"} THEN @ ELSE @ + 1,
       !.failed_count = IF step = "ok" THEN @ ELSE @ + 1,
       !.raised = Append(@, step)]

\* The meta of the update_state at the end of an iteration.
ProgressMeta(j) ==
    [Info("meta", "Sending") EXCEPT
        !.progress = ((j.i + 1) * 100) \div Len(j.user_emails)]

bulk_iterate(step) ==
    /\ job.kind = "bulk" /\ job.pc = "loop"
    /\ job.i < Len(job.user_emails)
    /\ job' = bulk_iteration(job, step)
    /\ task' = IF step = "ok"
               THEN [state |-> "PROGRESS", info |-> ProgressMeta(job)]
               ELSE task
    /\ last' = Step("bulk_iterate")
    /\ UNCHANGED <<users, reports, satReports, issued, notifications, emails,
                   emailEnabled, now, calls>>

\* The dict bulk_notification_async returns after its commit.
BulkResult(j) ==
    [Info("result", "success") EXCEPT
        !.sent = j.sent_count, !.failed = j.failed_count,
        !.total = Len(j.user_emails)]

\* A commit that writes the first pending object before it raises.
BulkCommittedPartly(table, session, commitFails, at) ==
    IF commitFails
    THEN Inserted(table, SubSeq(session, 1, IF session = <<>> THEN 0 ELSE 1), at)
    ELSE Inserted(table, session, at)

\* bulk_notification_async, line 207: the Notification table after the one
\* db.session.commit(): every pending object of the session is inserted in
\* one transaction, and none is when the commit raises.
BulkCommitted(table, session, commitFails, at) ==
    IF commitFails THEN table ELSE Inserted(table, session, at)

\* bulk_notification_async, lines 207-222: the one commit after the loop, and
\* the result; a commit that raises leaves the app context, whose session is
\* discarded, and the outer except returns the failed result.
bulk_commit(commitFails) ==
    /\ job.kind = "bulk" /\ job.pc = "loop"
    /\ job.i = Len(job.user_emails)
    /\ notifications' = BulkCommitted(notifications, job.session, commitFails, now)
    /\ task' = [state |-> "SUCCESS",
                info |-> IF commitFails THEN FailedResult ELSE BulkResult(job)]
    /\ job' = [job EXCEPT !.pc = "done", !.session = <<>>,
                          !.outer_raised = IF commitFails THEN "commit" ELSE ""]
    /\ last' = Step("bulk_commit")
    /\ UNCHANGED <<users, reports, satReports, issued, emails, emailEnabled, now, calls>>

\* send_email_async, lines 41-43: the update_state before the email is sent.
email_start(raises) ==
    /\ job.kind = "email" /\ job.pc = "start"
    /\ IF raises
       THEN /\ job' = [job EXCEPT !.pc = "done", !.outer_raised = "start"]
            /\ task' = [state |-> "SUCCESS", info |-> FailedResult]
       ELSE /\ job' = [job EXCEPT !.pc = "send"]
            /\ task' = [state |-> "PROGRESS", info |-> Info("meta", "Sending email...")]
    /\ last' = Step("email_start")
    /\ UNCHANGED <<users, reports, satReports, issued, notifications, emails,
                   emailEnabled, now, calls>>

\* send_email_async, lines 48-62: send_email_notification is called and the
\* success result returned; if it raises, the except branch returns the
\* failed result, and the function has returned normally. Nothing calls
\* self.retry.
email_send(raises) ==
    /\ job.kind = "email" /\ job.pc = "send"
    /\ IF raises
       THEN /\ job' = [job EXCEPT !.pc = "done", !.outer_raised = "send"]
            /\ task' = [state |-> "SUCCESS", info |-> FailedResult]
            /\ UNCHANGED emails
       ELSE /\ job' = [job EXCEPT !.pc = "done"]
            /\ task' = [state |-> "SUCCESS", info |-> Info("result", "success")]
            /\ emails' = Append(emails, job.user_emails[1])
    /\ last' = Step("email_send")
    /\ UNCHANGED <<users, reports, satReports, issued, notifications, emailEnabled,
                   now, calls>>

\* The progress meta of generate_report_async.
GenerateMeta(progress) == [Info("meta", "Generating") EXCEPT !.progress = progress]

\* generate_report_async, lines 72-73: the first update_state.
generate_start(raises) ==
    /\ job.kind = "generate" /\ job.pc = "start"
    /\ IF raises
       THEN /\ job' = [job EXCEPT !.pc = "done", !.outer_raised = "start"]
            /\ task' = [state |-> "SUCCESS", info |-> FailedResult]
       ELSE /\ job' = [job EXCEPT !.pc = "word"]
            /\ task' = [state |-> "PROGRESS", info |-> GenerateMeta(10)]
    /\ last' = Step("generate_start")
    /\ UNCHANGED <<users, reports, satReports, issued, notifications, emails,
                   emailEnabled, now, calls>>

\* generate_report_async, lines 80-83: the Word document is generated; the
\* generator may raise.
generate_word(raises) ==
    /\ job.kind = "generate" /\ job.pc = "word"
    /\ IF raises
       THEN /\ job' = [job EXCEPT !.pc = "done", !.outer_raised = "word"]
            /\ task' = [state |-> "SUCCESS", info |-> FailedResult]
       ELSE /\ job' = [job EXCEPT !.pc = "built"]
            /\ task' = [state |-> "PROGRESS", info |-> GenerateMeta(30)]
    /\ last' = Step("generate_word")
    /\ UNCHANGED <<users, reports, satReports, issued, notifications, emails,
                   emailEnabled, now, calls>>

\* generate_report_async, lines 85-94: the conversion to PDF when it is
\* enabled, and the update_state before the database is written.
generate_convert(pdf, raises) ==
    /\ job.kind = "generate" /\ job.pc = "built"
    /\ IF pdf /\ raises
       THEN /\ job' = [job EXCEPT !.pc = "done", !.outer_raised = "pdf"]
            /\ task' = [state |-> "SUCCESS", info |-> FailedResult]
       ELSE /\ job' = [job EXCEPT !.pc = "persist"]
            /\ task' = [state |-> "PROGRESS", info |-> GenerateMeta(90)]
    /\ last' = Step("generate_convert")
    /\ UNCHANGED <<users, reports, satReports, issued, notifications, emails,
                   emailEnabled, now, calls>>

\* The persistence step writing a status with the timestamp.
RegeneratedApproved(report, at) ==
    [report EXCEPT !.updated_at = at, !.status = "APPROVED"]

\* generate_report_async, line 102: what the persistence step writes to the
\* report.
Regenerated(report, at) == [report EXCEPT !.updated_at = at]

\* The persistence step writing a report it did not find.
MissingReportRecreated(rs, report_id, at) ==
    [r \in DOMAIN rs \cup {report_id} |->
        IF r = report_id THEN NewReport(<<>>, None, at) ELSE rs[r]]

\* generate_report_async, lines 100-101: Report.query.get gave None, the body
\* of `if report:` is skipped: the Report table afterwards.
MissingReport(rs, report_id, at) == rs

\* generate_report_async, lines 105-111: the success result.
GenerateResult == [Info("result", "success") EXCEPT !.word_path = "report.docx"]

\* generate_report_async, lines 96-119: the report is looked up and, if it
\* exists, its updated_at is set and committed; then the success result. A
\* commit that raises ends in the failed result with nothing written.
generate_persist(commitFails) ==
    /\ job.kind = "generate" /\ job.pc = "persist"
    /\ IF job.report_id \in DOMAIN reports
       THEN IF commitFails
            THEN /\ UNCHANGED reports
                 /\ job' = [job EXCEPT !.pc = "done", !.outer_raised = "commit"]
                 /\ task' = [state |-> "SUCCESS", info |-> FailedResult]
            ELSE /\ reports' = [reports EXCEPT
                                   ![job.report_id] = Regenerated(@, now)]
                 /\ job' = [job EXCEPT !.pc = "done"]
                 /\ task' = [state |-> "SUCCESS", info |-> GenerateResult]
       ELSE /\ reports' = MissingReport(reports, job.report_id, now)
            /\ job' = [job EXCEPT !.pc = "done"]
            /\ task' = [state |-> "SUCCESS", info |-> GenerateResult]
    /\ last' = Step("generate_persist")
    /\ UNCHANGED <<users, satReports, issued, notifications, emails, emailEnabled,
                   now, calls>>

\* A task is put on the queue: its id is given to the caller, the backend holds
\* nothing for it yet.
enqueue(kind, user_emails, report_id) ==
    /\ job = NoJob
    /\ job' = Job(kind, user_emails, report_id)
    /\ task' = NoTask
    /\ last' = Step("enqueue")
    /\ UNCHANGED <<users, reports, satReports, issued, notifications, emails,
                   emailEnabled, now, calls>>

\* The state and the payload AsyncResult(task_id) reads from the backend:
\* task id 1 is the task of job, any other id has no record.
AsyncResult(task_id) == IF task_id = 1 THEN task ELSE NoTask

\* The kind of dict get_task_status builds from a result.
StatusReply(result) ==
    IF result.state = "PENDING" THEN "not_started"
    ELSE IF result.state = "PROGRESS" THEN "progress"
    ELSE IF result.state = "SUCCESS" THEN "result"
    ELSE IF result.state = "FAILURE" THEN "error"
    ELSE "state_only"

\* get_task_status(task_id); a backend that cannot be read gives the ERROR
\* reply of the except branch.
get_task_status(task_id, backendFails) ==
    /\ last' = [Obs("get_task_status", task_id,
                    IF backendFails THEN "ERROR" ELSE AsyncResult(task_id).state, "",
                    IF backendFails THEN "backend_error"
                    ELSE StatusReply(AsyncResult(task_id)), 0)
                   EXCEPT !.reply = IF backendFails THEN Info("error", "backend")
                                    ELSE AsyncResult(task_id).info]
    /\ UNCHANGED <<users, reports, satReports, issued, notifications, emails,
                   emailEnabled, now, job, task, calls>>

(***************************************************************************)
(* The workflow: reports are created and moved between statuses, over a    *)
(* User table of active users.                                             *)
(***************************************************************************)
WorkflowRoles == {"Technical Manager", "Engineer"}
WorkflowData == {[document_title |-> "Doc A"]}

WorkflowUsers ==
    {[i \in 1..MaxUsers |-> User(EmailOf[i], role[i], "Active")] :
        role \in [1..MaxUsers -> WorkflowRoles]}

Init ==
    /\ users \in WorkflowUsers
    /\ reports = <<>>
    /\ satReports = {}
    /\ issued = 0
    /\ notifications = <<>>
    /\ emails = <<>>
    /\ emailEnabled \in BOOLEAN
    /\ now = 0
    /\ last = NoCall
    /\ job = NoJob
    /\ task = NoTask
    /\ calls = <<>>

CreateReport ==
    /\ issued < MaxReports
    /\ \E data \in WorkflowData, commitFails \in BOOLEAN :
           create_report(data, EmailOf[1], commitFails)

\* The failures a call can meet: a commit may fail; create_notification may
\* raise at any recipient, send_email_notification at any recipient once every
\* notification is created and the setting is on; the second commit exists
\* only in a call that reaches the dispatcher.
ReachesDispatcher(report_id, status, commit1Fails) ==
    /\ report_id \in DOMAIN reports
    /\ ~commit1Fails
    /\ status = "PENDING"
    /\ ~reports[report_id].approval_notification_sent

NotificationFailures(reached) ==
    IF reached THEN 0..Len(ApprovalRecipients(users)) ELSE {0}

EmailFailures(reached, failAt) ==
    IF reached /\ emailEnabled /\ failAt = 0
    THEN 0..Len(ApprovalRecipients(users)) ELSE {0}

SecondCommitFailures(reached) == IF reached THEN BOOLEAN ELSE {FALSE}

UpdateReportStatus ==
    \E report_id \in 1..MaxReports, status \in Statuses, commit1Fails \in BOOLEAN :
      LET reached == ReachesDispatcher(report_id, status, commit1Fails) IN
      \E failAt \in NotificationFailures(reached) :
        \E mailFailAt \in EmailFailures(reached, failAt),
           commit2Fails \in SecondCommitFailures(reached) :
            update_report_status(report_id, status, commit1Fails, failAt,
                                 mailFailAt, commit2Fails)

Next == CreateReport \/ UpdateReportStatus

Spec == Init /\ [][Next]_vars

(***************************************************************************)
(* The dispatcher over any User table: the table is drawn, and the         *)
(* dispatcher is called for a report.                                      *)
(***************************************************************************)
UserStatuses == {"Active", "Pending"}
DispatchRoles == TMCategoryRoles \cup {"Engineer", "PM"}

UserTables ==
    UNION {{[i \in 1..n |-> User(EmailOf[i], role[i], status[i])] :
              role \in [1..n -> DispatchRoles], status \in [1..n -> UserStatuses]} :
           n \in 0..MaxUsers}

DispatchedReport == NewReport([document_title |-> "Doc A"], EmailOf[1], 0)

InitDispatch ==
    /\ users \in UserTables
    /\ reports = <<>>
    /\ satReports = {}
    /\ issued = 0
    /\ notifications = <<>>
    /\ emails = <<>>
    /\ emailEnabled \in BOOLEAN
    /\ now = 0
    /\ last = NoCall
    /\ job = NoJob
    /\ task = NoTask
    /\ calls = <<>>

CreateApprovalNotification ==
    \E failAt \in NotificationFailures(TRUE) :
      \E mailFailAt \in EmailFailures(TRUE, failAt) :
        create_approval_notification(DispatchedReport, failAt, mailFailAt)

NextDispatch == CreateApprovalNotification

SpecDispatch == InitDispatch /\ [][NextDispatch]_vars

(***************************************************************************)
(* The pending-approval count over any Report table: the table is drawn,   *)
(* with approval states of every kind the column can hold, and the count   *)
(* is asked for a role.                                                    *)
(***************************************************************************)
ApprovalsAtStage(stage) ==
    PyDict(<< <<"stage", stage>>, <<"approvers", DictGet(InitialApprovals, "approvers")>> >>)

StoredApprovals ==
    {NullText,
     Text(<<>>),
     Text(<< <<"x", "not json">> >>),
     Text(json_dumps(PyList(<<>>))),
     Text(json_dumps(PyDict(<<>>))),
     Text(json_dumps(PyDict(<< <<"stage", PyInt(1)>> >>))),
     Text(json_dumps(ApprovalsAtStage(PyInt(1)))),
     Text(json_dumps(ApprovalsAtStage(PyInt(2)))),
     Text(json_dumps(ApprovalsAtStage(PyStr("1"))))}

\* A PENDING report may hold any of the texts; a report of another status
\* holds none or the state of stage 1.
StoredReports ==
    {[NewReport([document_title |-> "Doc A"], EmailOf[1], 0) EXCEPT
        !.status = st, !.approvals_json = a] :
     st \in {"PENDING"}, a \in StoredApprovals}
    \cup
    {[NewReport([document_title |-> "Doc A"], EmailOf[1], 0) EXCEPT
        !.status = st, !.approvals_json = a] :
     st \in Statuses,
     a \in {NullText, Text(json_dumps(ApprovalsAtStage(PyInt(1))))}}

ReportTables == UNION {[1..n -> StoredReports] : n \in 0..MaxStored}

InitQuery ==
    /\ users = <<>>
    /\ reports \in ReportTables
    /\ satReports = DOMAIN reports
    /\ issued = Len(reports)
    /\ notifications = <<>>
    /\ emails = <<>>
    /\ emailEnabled = FALSE
    /\ now = 0
    /\ last = NoCall
    /\ job = NoJob
    /\ task = NoTask
    /\ calls = <<>>

GetPendingApprovals ==
    \E user_role \in RoleStrings, queryFails \in BOOLEAN :
        get_pending_approvals(user_role, queryFails)

NextQuery == GetPendingApprovals

SpecQuery == InitQuery /\ [][NextQuery]_vars

(***************************************************************************)
(* The inbox: notifications of several recipients, some read, are marked   *)
(* as read by callers who own them or do not.                              *)
(***************************************************************************)
Recipients == {EmailOf[1], EmailOf[2]}
Callers == Recipients \cup {EmailOf[3]}

\* A stored notification: created at time 0, read at time 0 if it is read.
StoredNotification(id, user_email, read) ==
    [Notification(user_email, "New Report for Approval", "Doc A", "approval") EXCEPT
        !.id = id, !.created_at = 0, !.read = read,
        !.read_at = IF read THEN 0 ELSE Never]

InboxTables ==
    UNION {{[i \in 1..n |-> StoredNotification(i, to[i], read[i])] :
               to \in [1..n -> Recipients], read \in [1..n -> BOOLEAN]} :
           n \in 0..MaxInbox}

InitInbox ==
    /\ users = <<>>
    /\ reports = <<>>
    /\ satReports = {}
    /\ issued = 0
    /\ notifications \in InboxTables
    /\ emails = <<>>
    /\ emailEnabled = FALSE
    /\ now = 1
    /\ last = NoCall
    /\ job = NoJob
    /\ task = NoTask
    /\ calls = <<>>

MarkAsRead ==
    \E notification_id \in 1..(MaxInbox + 1), user_email \in Callers,
       commitFails \in BOOLEAN :
        mark_as_read(notification_id, user_email, commitFails)

NextInbox == MarkAsRead

SpecInbox == InitInbox /\ [][NextInbox]_vars

(***************************************************************************)
(* The bulk-notification task: queued for a list of recipients, run step   *)
(* by step by a worker, while its status is polled.                        *)
(***************************************************************************)
RecipientLists == {[i \in 1..n |-> EmailOf[i]] : n \in 0..MaxBatch}

InitBulk ==
    /\ users = <<>>
    /\ reports = <<>>
    /\ satReports = {}
    /\ issued = 0
    /\ notifications = <<>>
    /\ emails = <<>>
    /\ emailEnabled = FALSE
    /\ now = 0
    /\ last = NoCall
    /\ \E user_emails \in RecipientLists : job = Job("bulk", user_emails, 0)
    /\ task = NoTask
    /\ calls = <<>>

BulkStart == \E raises \in BOOLEAN : bulk_start(raises)
BulkIterate == \E step \in IterationSteps : bulk_iterate(step)
BulkCommit == \E commitFails \in BOOLEAN : bulk_commit(commitFails)
GetTaskStatus ==
    \E task_id \in 1..2, backendFails \in BOOLEAN :
        get_task_status(task_id, backendFails)

NextBulk ==
    \/ pick_up
    \/ time_limit
    \/ BulkStart
    \/ BulkIterate
    \/ BulkCommit
    \/ GetTaskStatus

SpecBulk == InitBulk /\ [][NextBulk]_vars

(***************************************************************************)
(* Retention: reports and notifications of several ages, while days pass,  *)
(* reports change status, notifications are read and the cleanup runs.     *)
(***************************************************************************)
\* The stored reports and notifications are of day 0; the days that pass make
\* them old.
KeptReports ==
    {[NewReport([document_title |-> "Doc A"], EmailOf[1], 0) EXCEPT !.status = st] :
        st \in Statuses}

KeptNotifications == {StoredNotification(1, EmailOf[1], read) : read \in BOOLEAN}

InitRetention ==
    /\ users = <<User(EmailOf[2], "TM", "Active")>>
    /\ reports \in UNION {[1..n -> KeptReports] : n \in 0..MaxKept}
    /\ satReports = DOMAIN reports
    /\ issued = Len(reports)
    /\ notifications \in {<<>>} \cup {<<n>> : n \in KeptNotifications}
    /\ emails = <<>>
    /\ emailEnabled = FALSE
    /\ now = 0
    /\ last = NoCall
    /\ job = NoJob
    /\ task = NoTask
    /\ calls = <<>>

CleanupOldData ==
    \E days \in 0..MaxDays, commitFails \in BOOLEAN : cleanup_old_data(days, commitFails)

\* The first report is the one whose status is changed.
ChangeStatus ==
    \E status \in Statuses : update_report_status(1, status, FALSE, 0, 0, FALSE)

ReadNotification == mark_as_read(1, EmailOf[1], FALSE)

NextRetention ==
    \/ tick
    \/ CleanupOldData
    \/ ChangeStatus
    \/ ReadNotification

SpecRetention == InitRetention /\ [][NextRetention]_vars

(***************************************************************************)
(* Authoring: reports of two owners are created from field sets with and   *)
(* without a title, and listed for users of every role.                    *)
(***************************************************************************)
Owners == {EmailOf[1], EmailOf[2]}

ReportData ==
    {[document_title |-> "Doc A"],
     [type |-> "FAT", document_title |-> "Doc A"],
     [type |-> "SAT"],
     [type |-> "FAT"]}

InitReports ==
    /\ users = <<>>
    /\ reports = <<>>
    /\ satReports = {}
    /\ issued = 0
    /\ notifications = <<>>
    /\ emails = <<>>
    /\ emailEnabled = FALSE
    /\ now = 0
    /\ last = NoCall
    /\ job = NoJob
    /\ task = NoTask
    /\ calls = <<>>

CreateOwnedReport ==
    /\ issued < MaxOwned
    /\ \E data \in ReportData, user_email \in Owners, commitFails \in BOOLEAN :
           create_report(data, user_email, commitFails)

GetUserReports ==
    \E user_email \in Owners, role \in RoleStrings, queryFails \in BOOLEAN :
        get_user_reports(user_email, role, queryFails)

NextReports == CreateOwnedReport \/ GetUserReports

SpecReports == InitReports /\ [][NextReports]_vars

(***************************************************************************)
(* The whole system on a small store: every operation that reads or writes *)
(* reports runs beside status changes, with one task on the queue.         *)
(***************************************************************************)
\* The stored reports are of day 0 and the clock stands at day 1.
FramedReports ==
    {[NewReport([document_title |-> "Doc A"], EmailOf[1], 0) EXCEPT
         !.status = st,
         !.approvals_json = IF st = "DRAFT" THEN NullText
                            ELSE Text(json_dumps(InitialApprovals))] :
        st \in Statuses}

InitFrame ==
    /\ users = <<User(EmailOf[2], "TM", "Active")>>
    /\ reports \in UNION {[1..n -> FramedReports] : n \in 1..MaxFramed}
    /\ satReports = DOMAIN reports
    /\ issued = Len(reports)
    /\ notifications = <<>>
    /\ emails = <<>>
    /\ emailEnabled = FALSE
    /\ now = 1
    /\ last = NoCall
    /\ job = NoJob
    /\ task = NoTask
    /\ calls = <<>>

FrameChangeStatus ==
    \E status \in Statuses : update_report_status(1, status, FALSE, 0, 0, FALSE)

FrameDispatch ==
    \E r \in DOMAIN reports : create_approval_notification(reports[r], 0, 0)

FrameMarkAsRead == mark_as_read(1, EmailOf[2], FALSE)

FramePendingApprovals == get_pending_approvals("TM", FALSE)

FrameUserReports == get_user_reports(EmailOf[1], "Engineer", FALSE)

FrameCleanup == cleanup_old_data(0, FALSE)

FrameEnqueue ==
    \/ enqueue("bulk", <<EmailOf[1]>>, 0)
    \/ enqueue("generate", <<>>, 1)

FrameGenerate ==
    \/ generate_start(FALSE)
    \/ generate_word(FALSE)
    \/ \E pdf \in BOOLEAN : generate_convert(pdf, FALSE)
    \/ \E commitFails \in BOOLEAN : generate_persist(commitFails)

FrameBulk ==
    \/ bulk_start(FALSE)
    \/ \E step \in IterationSteps : bulk_iterate(step)
    \/ \E commitFails \in BOOLEAN : bulk_commit(commitFails)

NextFrame ==
    \/ FrameChangeStatus
    \/ FrameDispatch
    \/ FrameMarkAsRead
    \/ FramePendingApprovals
    \/ FrameUserReports
    \/ FrameCleanup
    \/ FrameEnqueue
    \/ pick_up
    \/ FrameGenerate
    \/ FrameBulk

SpecFrame == InitFrame /\ [][NextFrame]_vars

(***************************************************************************)
(* The email-delivery task: queued for one recipient, run by a worker,     *)
(* while its status is polled.                                             *)
(***************************************************************************)
InitEmail ==
    /\ users = <<>>
    /\ reports = <<>>
    /\ satReports = {}
    /\ issued = 0
    /\ notifications = <<>>
    /\ emails = <<>>
    /\ emailEnabled = TRUE
    /\ now = 0
    /\ last = NoCall
    /\ \E i \in 1..MaxRecipients : job = Job("email", <<EmailOf[i]>>, 0)
    /\ task = NoTask
    /\ calls = <<>>

EmailStart == \E raises \in BOOLEAN : email_start(raises)
EmailSend == \E raises \in BOOLEAN : email_send(raises)

NextEmail ==
    \/ pick_up
    \/ time_limit
    \/ EmailStart
    \/ EmailSend
    \/ GetTaskStatus

SpecEmail == InitEmail /\ [][NextEmail]_vars

(***************************************************************************)
(* The bulk-notification task beside the readers of the Notification       *)
(* table: the unread count, mark_as_read and the cleanup run between the   *)
(* steps of the task.                                                      *)
(***************************************************************************)
InitVisibility ==
    /\ users = <<>>
    /\ reports = <<>>
    /\ satReports = {}
    /\ issued = 0
    /\ notifications \in {<<>>} \cup {<<n>> : n \in KeptNotifications}
    /\ emails = <<>>
    /\ emailEnabled = FALSE
    /\ now = 1
    /\ last = NoCall
    /\ \E n \in 1..MaxBatch : job = Job("bulk", [i \in 1..n |-> EmailOf[i]], 0)
    /\ task = NoTask
    /\ calls = <<>>

VisibilityUnreadCount == get_unread_count(EmailOf[1], FALSE)

VisibilityMarkAsRead ==
    \E notification_id \in 1..2 : mark_as_read(notification_id, EmailOf[1], FALSE)

VisibilityCleanup == cleanup_old_data(0, FALSE)

NextVisibility ==
    \/ pick_up
    \/ time_limit
    \/ bulk_start(FALSE)
    \/ BulkIterate
    \/ BulkCommit
    \/ VisibilityUnreadCount
    \/ VisibilityMarkAsRead
    \/ VisibilityCleanup

SpecVisibility == InitVisibility /\ [][NextVisibility]_vars

(***************************************************************************)
(* The race: the requests all submit the one DRAFT report.                 *)
(***************************************************************************)
InitRace ==
    /\ users \in WorkflowUsers
    /\ reports = <<NewReport([document_title |-> "Doc A"], EmailOf[1], 0)>>
    /\ satReports = {1}
    /\ issued = 1
    /\ notifications = <<>>
    /\ emails = <<>>
    /\ emailEnabled \in BOOLEAN
    /\ now = 0
    /\ last = NoCall
    /\ job = NoJob
    /\ task = NoTask
    /\ calls = [c \in 1..MaxCalls |-> Call(1, "PENDING")]

NextRace ==
    \E c \in 1..MaxCalls :
        \/ call_load(c)
        \/ call_commit(c)
        \/ call_check(c)
        \/ call_dispatch(c)
        \/ call_mark(c)

SpecRace == InitRace /\ [][NextRace]_vars

(***************************************************************************)
(* Properties.                                                             *)
(***************************************************************************)
\* The last call was update_report_status on a stored report.
UpdatedReport == last.op = "update_report_status" /\ last.arg \in DOMAIN reports

\* The last call committed the transition DRAFT -> PENDING.
MadeDraftToPending ==
    /\ UpdatedReport
    /\ last.old_status = "DRAFT"
    /\ last.status = "PENDING"
    /\ reports[last.arg].status = "PENDING"

\* The fixed two-stage template, as a value.
TwoStageTemplate ==
    <<"dict",
      << <<"stage", <<"int", 1>> >>,
         <<"approvers",
           <<"list",
             << <<"dict", << <<"stage", <<"int", 1>> >>,
                             <<"title", <<"str", "Technical Manager">> >>,
                             <<"status", <<"str", "pending">> >> >> >>,
                <<"dict", << <<"stage", <<"int", 2>> >>,
                             <<"title", <<"str", "Project Manager">> >>,
                             <<"status", <<"str", "pending">> >> >> >> >> >> >> >> >>

\* The column holds a text that parses to the template.
HoldsTemplate(column) ==
    /\ ~column.null
    /\ json_loads(column.text).ok
    /\ json_loads(column.text).val = TwoStageTemplate

\* The column holds a parseable approval state with two stage descriptors
\* numbered 1, 2 and a current stage that is the number of exactly one of them.
WellFormedApprovals(column) ==
    /\ ~column.null
    /\ LET a == json_loads(column.text) IN
       /\ a.ok
       /\ a.val[1] = "dict"
       /\ LET approvers == DictGet(a.val, "approvers")
              stage == DictGet(a.val, "stage")
          IN /\ approvers[1] = "list"
             /\ Len(approvers[2]) = 2
             /\ \A i \in 1..2 :
                    /\ approvers[2][i][1] = "dict"
                    /\ PyEq(DictGet(approvers[2][i], "stage"), PyInt(i))
             /\ stage[1] = "int"
             /\ Cardinality({i \in 1..2 : stage[2] = i}) = 1

\* The notifications and the emails the last dispatch added.
NewNotifications == SubSeq(notifications, last.before + 1, Len(notifications))
NewEmails == SubSeq(emails, last.mails_before + 1, Len(emails))

NotifiedCount(email) ==
    Cardinality({j \in 1..Len(NewNotifications) : NewNotifications[j].user_email = email})

EmailedCount(email) ==
    Cardinality({j \in 1..Len(NewEmails) : NewEmails[j] = email})

\* The last call was the dispatcher on its own, and nothing failed in it.
DispatchedWithoutFailure ==
    /\ last.op = "create_approval_notification"
    /\ last.failed_at = 0
    /\ last.mail_failed_at = 0

\* The users that are Active and have a technical-manager role.
ActiveTechnicalManagers ==
    {i \in 1..Len(users) : users[i].status = "Active" /\ users[i].role \in TMCategoryRoles}

\* C1: after a successful update_report_status(report, 'PENDING') on a report
\* in DRAFT, the stored approval state is the two-stage template: stage 1,
\* 'Technical Manager' then 'Project Manager', both pending.
C1_DraftToPendingStoresTemplate ==
    (MadeDraftToPending /\ last.outcome = "ok")
        => HoldsTemplate(reports[last.arg].approvals_json)

\* C1's case: a second approval cycle has just overwritten the state of the first.
C1_Witness ==
    /\ MadeDraftToPending
    /\ last.outcome = "ok"
    /\ reports[last.arg].approval_notification_sent
    /\ ~last.dispatched

\* C2: a report whose approval_notification_sent flag is true has status PENDING.
C2_FlagOnlyWhilePending ==
    \A r \in DOMAIN reports :
        reports[r].approval_notification_sent => reports[r].status = "PENDING"

\* C3: every committed transition DRAFT -> PENDING invokes the dispatcher, in
\* the second and later approval cycles too.
C3_EveryCycleDispatches == MadeDraftToPending => last.dispatched

\* C4: when update_report_status moves a report into PENDING and the
\* dispatcher fails, the report is PENDING afterwards, and holds the approval
\* state initialized by the call when it came from DRAFT.
C4_DispatcherFailureKeepsStatus ==
    (UpdatedReport /\ last.status = "PENDING" /\ last.dispatched /\ ~last.dispatch_ok)
        => /\ reports[last.arg].status = "PENDING"
           /\ last.old_status = "DRAFT"
                  => HoldsTemplate(reports[last.arg].approvals_json)

\* C4's case: create_notification raised for the first recipient of a report
\* that came from DRAFT.
C4_Witness ==
    /\ UpdatedReport
    /\ last.status = "PENDING"
    /\ last.old_status = "DRAFT"
    /\ last.dispatched
    /\ last.failed_at = 1
    /\ reports[last.arg].status = "PENDING"

\* C5: when create_notification fails for one recipient only, every other
\* resolved recipient has a notification from the call.
C5_OtherRecipientsNotified ==
    (last.op = "create_approval_notification" /\ last.failed_at # 0)
        => \A i \in 1..Len(last.recipients) :
               i # last.failed_at => NotifiedCount(last.recipients[i]) >= 1

\* C6: with no failures, one call of the dispatcher creates exactly one
\* notification per Active technical-manager user and none for anyone else,
\* and exactly one email per such user when the setting is on, none when off.
C6_OnePerActiveTechnicalManager ==
    DispatchedWithoutFailure
        => /\ Len(NewNotifications) = Cardinality(ActiveTechnicalManagers)
           /\ \A i \in ActiveTechnicalManagers : NotifiedCount(users[i].email) = 1
           /\ Len(NewEmails) =
                  IF emailEnabled THEN Cardinality(ActiveTechnicalManagers) ELSE 0
           /\ emailEnabled
                  => \A i \in ActiveTechnicalManagers : EmailedCount(users[i].email) = 1

\* C7: an Active user whose role is "Automation Manager" or "Tech Manager"
\* receives the approval notification.
C7_SynonymsAreNotified ==
    DispatchedWithoutFailure
        => \A i \in 1..Len(users) :
               (users[i].status = "Active"
                /\ users[i].role \in {"Automation Manager", "Tech Manager"})
                   => \E j \in 1..Len(NewNotifications) :
                          NewNotifications[j].user_email = users[i].email

\* C8: a report becomes APPROVED only from PENDING.
C8_ApprovedOnlyFromPending ==
    [][\A r \in DOMAIN reports :
          (r \in DOMAIN reports' /\ reports'[r].status = "APPROVED"
           /\ reports[r].status # "APPROVED")
              => reports[r].status = "PENDING"]_vars

\* C9: every report in PENDING has a well-formed stored approval state.
C9_PendingHasApprovalState ==
    \A r \in DOMAIN reports :
        reports[r].status = "PENDING" => WellFormedApprovals(reports[r].approvals_json)

\* The ids of the PENDING reports whose stored current stage is the given one.
PendingAtStage(stage) ==
    {r \in DOMAIN reports :
        /\ reports[r].status = "PENDING"
        /\ ~reports[r].approvals_json.null
        /\ LET a == json_loads(reports[r].approvals_json.text) IN
           /\ a.ok
           /\ a.val[1] = "dict"
           /\ DictGet(a.val, "stage") = <<"int", stage>>}

\* C10: get_pending_approvals(role) is the number of PENDING reports at stage 1
\* for a technical-manager synonym, at stage 2 for a project-manager synonym,
\* and 0 for any other role.
C10_CountByRoleCategory ==
    (last.op = "get_pending_approvals" /\ last.outcome = "ok")
        => last.value =
               IF last.arg \in TMCategoryRoles THEN Cardinality(PendingAtStage(1))
               ELSE IF last.arg \in PMCategoryRoles THEN Cardinality(PendingAtStage(2))
               ELSE 0

\* The stored approval state is absent, empty, unparseable, or parses to
\* something that is no JSON object.
Unreadable(column) ==
    \/ column.null
    \/ column.text = <<>>
    \/ ~json_loads(column.text).ok
    \/ json_loads(column.text).val[1] # "dict"

\* The Report table without the reports of the given ids.
Without(rs, ids) == [r \in DOMAIN rs \ ids |-> rs[r]]

UnreadableReports == {r \in DOMAIN reports : Unreadable(reports[r].approvals_json)}

NotWellFormedReports ==
    {r \in DOMAIN reports : ~WellFormedApprovals(reports[r].approvals_json)}

\* C11 (as amended): get_pending_approvals returns for every role, and a
\* PENDING report whose approval state is absent, empty, unparseable or no
\* JSON object adds nothing to the count: the count is the one of the table
\* without those reports, whose other reports are still counted.
C11_UnreadableContributeNothing ==
    (last.op = "get_pending_approvals" /\ last.outcome = "ok")
        => /\ last.value = PendingApprovalCount(Without(reports, UnreadableReports), last.arg)
           /\ last.value <= Cardinality({r \in DOMAIN reports :
                                  /\ reports[r].status = "PENDING"
                                  /\ ~Unreadable(reports[r].approvals_json)})

\* C11's case: an unreadable PENDING report beside a counted one.
C11_Witness ==
    /\ last.op = "get_pending_approvals"
    /\ last.outcome = "ok"
    /\ last.value = 1
    /\ \E r \in DOMAIN reports :
           reports[r].status = "PENDING" /\ Unreadable(reports[r].approvals_json)
                /\ ~reports[r].approvals_json.null /\ reports[r].approvals_json.text # <<>>

\* C11 (as claimed): a PENDING report whose approval state is absent, empty,
\* unparseable, or parseable but not of the expected shape (two stage
\* descriptors and a current stage) adds nothing to the count.
C11_MalformedContributeNothing ==
    (last.op = "get_pending_approvals" /\ last.outcome = "ok")
        => last.value = PendingApprovalCount(Without(reports, NotWellFormedReports), last.arg)

\* The positions of the notifications with the key and the recipient of the
\* call observed in obs.
OwnedBy(table, obs) ==
    {i \in 1..Len(table) : table[i].id = obs.arg /\ table[i].user_email = obs.email}

\* C12: mark_as_read(id, email) returns True, and sets the read flag and the
\* read timestamp of that notification alone, only when a notification with
\* that id exists and its recipient is email; otherwise it returns False; and
\* whenever it returns False no Notification record is changed.
C12_MarkAsReadOnlyOwn ==
    [][last'.op = "mark_as_read"
         => LET own == OwnedBy(notifications, last') IN
            /\ last'.outcome \in {"True", "False"}
            /\ own = {} => last'.outcome = "False"
            /\ last'.outcome = "False" => notifications' = notifications
            /\ last'.outcome = "True"
                 => /\ own # {}
                    /\ Len(notifications') = Len(notifications)
                    /\ \A i \in 1..Len(notifications) :
                          IF i \in own
                          THEN notifications'[i] =
                                 [notifications[i] EXCEPT !.read = TRUE, !.read_at = now]
                          ELSE notifications'[i] = notifications[i]]_vars

\* C12's case: a call that returned True beside another recipient's unread
\* notification.
C12_Witness ==
    /\ last.op = "mark_as_read"
    /\ last.outcome = "True"
    /\ \E i \in 1..Len(notifications) :
          /\ notifications[i].id = last.arg
          /\ notifications[i].read /\ notifications[i].read_at = now
    /\ \E i \in 1..Len(notifications) :
          notifications[i].user_email # last.email /\ ~notifications[i].read

\* The recipients of the bulk task at whom creating the record failed.
FailedRecipients ==
    {i \in 1..Len(job.raised) : job.raised[i] \in {"construct", "add"}}

\* The bulk task has run to its end, and nothing failed in it but the creation
\* of records.
BulkOnlyCreationFailed ==
    /\ job.kind = "bulk" /\ job.pc = "done"
    /\ Len(job.raised) = Len(job.user_emails)
    /\ \A i \in 1..Len(job.raised) : job.raised[i] # "progress"
    /\ job.outer_raised = ""
    /\ task.state # "FAILURE"

\* C13: the bulk-notification task on n recipients, where creating the record
\* fails for exactly the recipients in F, ends with a success result of
\* sent = n - |F|, failed = |F|, total = n, and afterwards a Notification is
\* stored for every recipient not in F and for none in F.
C13_BulkTalliesAndStores ==
    BulkOnlyCreationFailed
        => /\ task.state = "SUCCESS"
           /\ task.info.kind = "result" /\ task.info.status = "success"
           /\ task.info.sent = Len(job.user_emails) - Cardinality(FailedRecipients)
           /\ task.info.failed = Cardinality(FailedRecipients)
           /\ task.info.total = Len(job.user_emails)
           /\ \A i \in 1..Len(job.user_emails) :
                 (\E k \in 1..Len(notifications) :
                      notifications[k].user_email = job.user_emails[i])
                     <=> i \notin FailedRecipients
           /\ Len(notifications) = Len(job.user_emails) - Cardinality(FailedRecipients)

\* C13's case: three recipients, the record of the second one failed.
C13_Witness ==
    /\ BulkOnlyCreationFailed
    /\ Len(job.user_emails) = 3
    /\ FailedRecipients = {2}
    /\ Len(notifications) = 2

\* C14: cleanup_old_data(days) that commits deletes exactly the reports that
\* are DRAFT with updated_at older than now - days and leaves every other
\* report as it was; one whose commit fails deletes nothing; and no step of
\* any operation deletes a report that is not such a DRAFT, so a non-DRAFT
\* report is never deleted.
C14_DeletesExactlyOldDrafts ==
    [][/\ \A r \in DOMAIN reports \ DOMAIN reports' :
             /\ last'.op = "cleanup_old_data"
             /\ reports[r].status = "DRAFT"
             /\ reports[r].updated_at < now - last'.arg
       /\ DOMAIN reports' \subseteq DOMAIN reports
       /\ last'.op = "cleanup_old_data"
            => /\ \A r \in DOMAIN reports' : reports'[r] = reports[r]
               /\ last'.outcome = "ok"
                    => \A r \in DOMAIN reports :
                          (reports[r].status = "DRAFT"
                              /\ reports[r].updated_at < now - last'.arg)
                            => r \notin DOMAIN reports'
               /\ last'.outcome # "ok" => DOMAIN reports' = DOMAIN reports]_vars

\* C14's case: a cleanup deleted a report and kept a report that is not a
\* DRAFT and is older than the cutoff.
C14_Witness ==
    /\ last.op = "cleanup_old_data"
    /\ last.outcome = "ok"
    /\ last.value >= 1
    /\ \E r \in DOMAIN reports :
          reports[r].status # "DRAFT" /\ reports[r].updated_at < now - last.arg

\* C15: cleanup_old_data(days) that commits deletes exactly the notifications
\* that are read and were created before now - days: an unread notification
\* is never deleted, whatever its age, and a read one that is not older than
\* the cutoff is kept; no other step deletes a notification.
C15_DeletesExactlyOldRead ==
    [][LET Kept(n) == \E k \in 1..Len(notifications') : notifications'[k].id = n.id
       IN \A i \in 1..Len(notifications) :
             LET n == notifications[i] IN
             /\ ~Kept(n) => /\ last'.op = "cleanup_old_data"
                            /\ n.read
                            /\ n.created_at < now - last'.arg
             /\ (last'.op = "cleanup_old_data" /\ last'.outcome = "ok"
                    /\ n.read /\ n.created_at < now - last'.arg) => ~Kept(n)
             /\ (last'.op = "cleanup_old_data" /\ Kept(n))
                    => \E k \in 1..Len(notifications') : notifications'[k] = n]_vars

\* C15's case: a cleanup whose cutoff an unread notification is older than,
\* and the notification is still stored.
C15_Witness ==
    /\ last.op = "cleanup_old_data"
    /\ last.outcome = "ok"
    /\ \E i \in 1..Len(notifications) :
          ~notifications[i].read /\ notifications[i].created_at < now - last.arg

\* C16: for every task id and every state the result backend can hold for it,
\* a task picked up by a worker that has not yet reported progress among
\* them, get_task_status that could read the backend returns one of four
\* kinds: not started, in progress with the last progress payload, succeeded
\* with the result payload, or failed with the error text.
C16_OneOfFourKinds ==
    (last.op = "get_task_status" /\ last.outcome # "backend_error")
        => \/ last.outcome = "not_started"
           \/ last.outcome = "progress" /\ last.reply.kind = "meta"
           \/ last.outcome = "result" /\ last.reply.kind = "result"
           \/ last.outcome = "error" /\ last.reply.kind = "error"

\* C18: get_user_reports returns every stored report when the role is Admin
\* or a manager role (every technical-manager and project-manager synonym),
\* and for any other role exactly the reports whose owner is the given email.
C18_ManagersSeeAllOthersOwn ==
    (last.op = "get_user_reports" /\ last.outcome = "ok")
        => IF last.arg \in {"Admin"} \cup TMCategoryRoles \cup PMCategoryRoles
           THEN last.returned = DOMAIN reports
           ELSE last.returned =
                    {r \in DOMAIN reports : reports[r].user_email = last.email}

\* C19: create_report called with a field set that lacks document_title fails
\* with a validation error and stores neither a Report nor a SAT record.
C19_MissingTitleRejected ==
    (last.op = "create_report" /\ last.title = None)
        => /\ last.outcome = "ValidationError"
           /\ last.arg \notin DOMAIN reports
           /\ last.arg \notin satReports

\* C20: update_report_status called with an id for which no report exists
\* fails with the not-found error and changes nothing in the store: no report
\* is created or modified, and no notification or email is produced.
C20_NotFoundChangesNothing ==
    [][(last'.op = "update_report_status" /\ last'.arg \notin DOMAIN reports)
          => /\ last'.outcome = "NotFound"
             /\ UNCHANGED <<reports, satReports, users, notifications, emails>>]_vars

\* C20's case: the call did not find the report, in a store that holds another
\* report and a notification.
C20_Witness ==
    /\ last.op = "update_report_status"
    /\ last.outcome = "NotFound"
    /\ last.arg \notin DOMAIN reports
    /\ DOMAIN reports # {}
    /\ notifications # <<>>

C21_MissingReportSkipsUpdate ==
    [][(last'.op = "generate_persist" /\ job.report_id \notin DOMAIN reports)
          => /\ reports' = reports
             /\ satReports' = satReports
             /\ task'.state = "SUCCESS"
             /\ task'.info.kind = "result"
             /\ task'.info.status = "success"
             /\ task'.info.word_path = "report.docx"
             /\ job'.pc = "done"]_vars

\* C21's case: the persistence step ran after the cleanup had deleted the
\* report of the task.
C21_Witness ==
    /\ last.op = "generate_persist"
    /\ job.kind = "generate"
    /\ job.report_id \notin DOMAIN reports
    /\ job.report_id \in satReports
    /\ task.info.status = "success"

\* C22: when the body of an email-delivery task fails (send_email_notification
\* raises), the task is not run again and status retrieval for its id reports
\* the failed state with the error text, never the succeeded state.
C22_FailedSendReportsFailure ==
    /\ (job.kind = "email" /\ job.outer_raised = "send") => job.pc = "done"
    /\ (last.op = "get_task_status" /\ last.arg = 1
            /\ last.outcome # "backend_error"
            /\ job.kind = "email" /\ job.outer_raised = "send")
         => /\ last.status = "FAILURE"
            /\ last.outcome = "error"

\* The keys of the stored notifications.
StoredIds(table) == {table[i].id : i \in 1..Len(table)}

\* C23: the bulk-notification task makes its notifications visible all at
\* once: no step but its final commit adds a row to the Notification table the
\* readers (get_unread_count, mark_as_read, cleanup) query; the commit adds
\* every pending object of the task together; and if the commit fails no
\* notification of the task is stored and the task's result is a failure.
C23_VisibleAllAtOnce ==
    [][job.kind = "bulk"
         => /\ last'.op # "bulk_commit"
                 => StoredIds(notifications') \subseteq StoredIds(notifications)
            /\ (last'.op = "bulk_commit" /\ job'.outer_raised = "commit")
                 => /\ notifications' = notifications
                    /\ task'.info.kind = "result" /\ task'.info.status = "failed"
            /\ (last'.op = "bulk_commit" /\ job'.outer_raised = "")
                 => /\ Len(notifications') = Len(notifications) + job.sent_count
                    /\ StoredIds(notifications) \subseteq StoredIds(notifications')
                    /\ task'.info.status = "success"]_vars

\* C23's case: the unread count of the first recipient was read as 0 while
\* the task held that recipient's notification uncommitted.
C23_Witness ==
    /\ last.op = "get_unread_count"
    /\ last.email = EmailOf[1]
    /\ last.value = 0
    /\ job.kind = "bulk" /\ job.pc = "loop"
    /\ \E k \in 1..Len(job.session) : job.session[k].user_email = EmailOf[1]

C25_DispatchedAtMostOnce ==
    \A i \in 1..Len(users) :
        (users[i].role \in ApprovalRecipientRoles /\ users[i].status = "Active")
            => Cardinality({k \in 1..Len(notifications) :
                               /\ notifications[k].user_email = users[i].email
                               /\ notifications[k].type = "approval"}) <= 1

\* C26: approval_notification_sent is set to true only after the dispatcher
\* reported success: a call whose dispatch returned failure leaves the flag
\* false, so that a later transition can dispatch again.
C26_FlagOnlyAfterSuccess ==
    (UpdatedReport /\ last.dispatched /\ ~last.dispatch_ok)
        => ~reports[last.arg].approval_notification_sent

\* C27: whenever update_report_status raises an error to its caller, the
\* persisted status and approval state of the report are the same as before
\* the call, including when the failure is in the second commit, which marks
\* the notification flag.
C27_ErrorLeavesReportAsItWas ==
    [][(last'.op = "update_report_status" /\ last'.outcome # "ok"
            /\ last'.arg \in DOMAIN reports)
          => /\ reports'[last'.arg].status = reports[last'.arg].status
             /\ reports'[last'.arg].approvals_json = reports[last'.arg].approvals_json]_vars

\* C28: in every success result of the bulk-notification task,
\* sent + failed = total, whichever step of a recipient's iteration fails
\* (constructing the record, adding it to the session, or reporting progress
\* after the sent counter was incremented).
C28_TalliesAddUp ==
    (job.kind = "bulk" /\ task.state = "SUCCESS" /\ task.info.kind = "result"
        /\ task.info.status = "success")
        => task.info.sent + task.info.failed = task.info.total

====
